---- MODULE Spec2Model ----
(***************************************************************************)
(* A model of the data cleaning pipeline of src/data_cleaning.py           *)
(* (class DataCleaner) and of its caller in src/app.py.                    *)
(*                                                                         *)
(* Reading of the source.  DataCleaner spells its constructor _init_ and   *)
(* the module logger _name_; the model reads them as the constructor and   *)
(* the module name they stand for, so that Init is the object after        *)
(* _init_ has run (lines 14-23).                                           *)
(*                                                                         *)
(* Numbers.  A numeric cell is an exact rational n/d in lowest terms; the  *)
(* model computes means, medians, quantiles and variances exactly and      *)
(* ignores floating point rounding.  A normalized column keeps its cells   *)
(* in the coordinates they had before scaling, next to the affine map      *)
(* (shift a, squared scale b2) that the scaler applied: the cell's value   *)
(* is (raw - a) / sqrt(b2).  Every statistic the code computes is          *)
(* equivariant or invariant under such a map, so the stages are computed   *)
(* on the raw coordinates.                                                 *)
(*                                                                         *)
(* pandas.  fillna(inplace=True) on self.cleaned_df[column] writes through *)
(* to the DataFrame, as in pandas without copy-on-write, for which the     *)
(* code is written.                                                        *)
(***************************************************************************)
EXTENDS Integers, Sequences, FiniteSets, TLC

(***************************************************************************)
(* Bounds of the model.                                                    *)
(***************************************************************************)
MaxRows == 2
MaxOps == 2
MaxCalls == 2
MaxConcCalls == 1
MaxStageRows == 3
MaxLongRows == 21
MaxColumnRows == 5
MaxColumnCalls == 1
MaxModeRows == 4

\* the ratio of missing cells below which a numeric column is filled with its mean
MeanRatioNum == 5
MeanRatioDen == 100

\* the default outlier threshold, 3.0 (lines 76, 153)
DefaultThreshold == [t |-> "num", n |-> 3, d |-> 1]

\* the multiple of the interquartile range beyond which a value is an outlier
IqrFactor == [t |-> "num", n |-> 3, d |-> 2]

\* the strings of the object cells, in sorted order
StrOrder == <<"x", "y">>

(***************************************************************************)
(* Cells.                                                                  *)
(***************************************************************************)
NaN == [t |-> "nan"]
Num(n, d) == [t |-> "num", n |-> n, d |-> d]
Str(s) == [t |-> "str", s |-> s]

isnull(c) == c.t = "nan"

Abs(x) == IF x < 0 THEN -x ELSE x

RECURSIVE GCD(_, _)
GCD(a, b) == IF b = 0 THEN a ELSE GCD(b, a % b)

\* the rational n/d (d # 0) in lowest terms with a positive denominator
Rat(n, d) ==
    LET g == GCD(Abs(n), Abs(d))
        s == IF d < 0 THEN -1 ELSE 1
    IN  Num((s * n) \div g, (s * d) \div g)

\* the least common denominator of x and y
LCD(x, y) == (x.d \div GCD(x.d, y.d)) * y.d

\* the numerator of x over the denominator l, a multiple of x.d
Over(x, l) == x.n * (l \div x.d)

\* arithmetic on numbers; NaN in, NaN out, and a comparison with NaN is False
RAdd(x, y) ==
    IF x = NaN \/ y = NaN THEN NaN
    ELSE Rat(Over(x, LCD(x, y)) + Over(y, LCD(x, y)), LCD(x, y))
RSub(x, y) ==
    IF x = NaN \/ y = NaN THEN NaN
    ELSE Rat(Over(x, LCD(x, y)) - Over(y, LCD(x, y)), LCD(x, y))
RMul(x, y) ==
    IF x = NaN \/ y = NaN THEN NaN
    ELSE Rat((x.n \div GCD(Abs(x.n), y.d)) * (y.n \div GCD(Abs(y.n), x.d)),
             (x.d \div GCD(Abs(y.n), x.d)) * (y.d \div GCD(Abs(x.n), y.d)))
RLess(x, y) == x # NaN /\ y # NaN /\ Over(x, LCD(x, y)) < Over(y, LCD(x, y))
RLeq(x, y) == x # NaN /\ y # NaN /\ Over(x, LCD(x, y)) <= Over(y, LCD(x, y))
Zero == Num(0, 1)

(***************************************************************************)
(* Sequences.                                                              *)
(***************************************************************************)
Range(s) == {s[i] : i \in DOMAIN s}

\* the indices j of i..n, increasing, with keep[j]
SelectIdx(keep, i, n) == SelectSeq([j \in 1..n |-> j], LAMBDA j : j >= i /\ keep[j])

RECURSIVE ISum(_)
\* the sum of the integers of s, the two halves added up separately
ISum(s) ==
    IF Len(s) = 0 THEN 0
    ELSE IF Len(s) = 1 THEN s[1]
    ELSE ISum(SubSeq(s, 1, Len(s) \div 2)) + ISum(SubSeq(s, Len(s) \div 2 + 1, Len(s)))

RECURSIVE LCM(_)
\* the least common multiple of the positive integers of the set D
LCM(D) ==
    IF D = {} THEN 1
    ELSE LCD([d |-> CHOOSE d \in D : TRUE], [d |-> LCM(D \ {CHOOSE d \in D : TRUE})])

\* the least common denominator of the numbers of s
LCDs(s) == LCM({s[k].d : k \in DOMAIN s})

\* the numerators of the numbers of s over the denominator l
Numerators(s, l) == [k \in DOMAIN s |-> Over(s[k], l)]

\* the sum of the numbers of s (exact, so the order of the additions is free)
RSum(s) == IF Len(s) = 0 THEN Zero ELSE Rat(ISum(Numerators(s, LCDs(s))), LCDs(s))

\* s[q] comes before s[j] in ascending order (equal numbers by position)
Precedes(s, q, j) == RLess(s[q], s[j]) \/ (s[q] = s[j] /\ q < j)

\* the numbers of s in ascending order
Sorted(s) ==
    [k \in DOMAIN s |->
        s[CHOOSE j \in DOMAIN s :
            Cardinality({q \in DOMAIN s : Precedes(s, q, j)}) = k - 1]]

(***************************************************************************)
(* Datasets: pandas DataFrames.  columns and dtypes are parallel           *)
(* sequences, rows is the sequence of rows in row order, scale[c] is the   *)
(* affine map of column c.                                                 *)
(***************************************************************************)
NoScale == [a |-> Zero, b2 |-> Num(1, 1)]

Frame(columns, dtypes, rows) ==
    [columns |-> columns, dtypes |-> dtypes, rows |-> rows,
     scale |-> [c \in DOMAIN columns |-> NoScale]]

shape(df) == <<Len(df.rows), Len(df.columns)>>

\* an emptiness test that looks at the columns only
EmptyColumns(df) == Len(df.columns) = 0

\* DataFrame.empty: an axis of length 0
empty(df) == Len(df.rows) = 0 \/ Len(df.columns) = 0

\* df[column] as a sequence of cells, by column position c
Column(df, c) == [i \in DOMAIN df.rows |-> df.rows[i][c]]

\* the non-missing cells of a column, in row order
Values(df, c) == SelectSeq(Column(df, c), LAMBDA x : ~isnull(x))

\* pandas.api.types.is_numeric_dtype
is_numeric_dtype(dtype) == dtype \in {"int64", "float64"}

\* DataFrame.select_dtypes(include=['int64', 'float64']).columns, as positions
numeric_columns(df) ==
    SelectIdx([c \in DOMAIN df.columns |-> df.dtypes[c] \in {"int64", "float64"}],
              1, Len(df.columns))

(***************************************************************************)
(* Column statistics over the non-missing cells (pandas skips NaN).  A     *)
(* statistic that pandas reports as NaN is the cell NaN.                   *)
(***************************************************************************)
mean(df, c) ==
    LET v == Values(df, c)
    IN  IF Len(v) = 0 THEN NaN ELSE RMul(RSum(v), Num(1, Len(v)))

\* Series.quantile(q), q = qn/qd, linear interpolation between order statistics
Interpolate(v, n, lo, frac) ==
    IF n = 0 THEN NaN
    ELSE IF lo + 1 >= n THEN v[lo + 1]
    ELSE RAdd(v[lo + 1], RMul(frac, RSub(v[lo + 2], v[lo + 1])))

quantile(df, c, qn, qd) ==
    LET n == Len(Values(df, c))
    IN  Interpolate(Sorted(Values(df, c)), n, ((n - 1) * qn) \div qd,
                    Rat(((n - 1) * qn) % qd, qd))

median(df, c) == quantile(df, c, 1, 2)

\* the sum of the squared deviations from the mean
Square(x) == RMul(x, x)

Deviations(v, m) ==
    IF m = NaN THEN NaN ELSE RSum([k \in DOMAIN v |-> Square(RSub(v[k], m))])

SumSq(df, c) == Deviations(Values(df, c), mean(df, c))

\* Series.std() squared: the sample variance (ddof = 1), NaN below two values
var(df, c) ==
    LET n == Len(Values(df, c))
    IN  IF n < 2 THEN NaN ELSE RMul(SumSq(df, c), Num(1, n - 1))

\* the variance StandardScaler fits (ddof = 0)
popvar(df, c) ==
    LET n == Len(Values(df, c))
    IN  IF n = 0 THEN NaN ELSE RMul(SumSq(df, c), Num(1, n))

First(v) == IF Len(v) = 0 THEN NaN ELSE v[1]
Last(v) == IF Len(v) = 0 THEN NaN ELSE v[Len(v)]

min(df, c) == First(Sorted(Values(df, c)))

max(df, c) == Last(Sorted(Values(df, c)))

\* the order of strings that Series.mode() sorts by
StrRank(s) == CHOOSE k \in 1..Len(StrOrder) : StrOrder[k] = s

\* Series.mode(): the most frequent non-missing values, sorted; as a sequence
Count(v, x) == Cardinality({k \in DOMAIN v : v[k] = x})

MostFrequent(v) == {x \in Range(v) : \A y \in Range(v) : Count(v, y) <= Count(v, x)}

Before(x, y) == IF x.t = "str" THEN StrRank(x.s) < StrRank(y.s) ELSE RLess(x, y)

SortedSet(S) ==
    [k \in 1..Cardinality(S) |->
        CHOOSE x \in S : Cardinality({y \in S : Before(y, x)}) = k - 1]

mode(df, c) == SortedSet(MostFrequent(Values(df, c)))

\* Series.fillna(value, inplace=True) on column c; filling with NaN changes nothing
fillna(df, c, value) ==
    [df EXCEPT !.rows = [i \in DOMAIN df.rows |->
        [df.rows[i] EXCEPT ![c] = IF isnull(@) THEN value ELSE @]]]

\* Series.isnull().sum()
isnull_sum(df, c) == Cardinality({i \in DOMAIN df.rows : isnull(df.rows[i][c])})

(***************************************************************************)
(* Exceptions.  str(e) of an exception is its msg and args.                *)
(***************************************************************************)
NoError == [type |-> "none"]
Raise(type, msg, args) == [type |-> type, msg |-> msg, args |-> args]
AttributeError(attr) ==
    Raise("AttributeError", "'list' object has no attribute", <<attr>>)

(***************************************************************************)
(* cleaning_report['columns_modified']: a set ([set |-> S]) until          *)
(* clean_data makes it a list ([list |-> L]).                              *)
(***************************************************************************)
IsSet(cm) == DOMAIN cm = {"set"}

\* dict item assignment d[key] = value
SetItem(d, key, value) == (key :> value) @@ d

EmptyDict == <<>>

(***************************************************************************)
(* The stages.  A stage maps the working dataset df and the report to      *)
(* [df, report, err]: err is NoError or the exception the stage raises,    *)
(* and df and report are then what the stage had written when it raised.   *)
(***************************************************************************)
Outcome(df, report, err) == [df |-> df, report |-> report, err |-> err]

\* DataFrame.drop_duplicates(): row i stays iff no earlier row equals it
keep_last(df) ==
    LET keep == [i \in DOMAIN df.rows |->
                    \A j \in (i + 1)..Len(df.rows) : df.rows[j] # df.rows[i]]
        idx == SelectIdx(keep, 1, Len(df.rows))
    IN  [df EXCEPT !.rows = [k \in DOMAIN idx |-> df.rows[idx[k]]]]

\* a removal of the first repeated row only
drop_one_duplicate(df) ==
    LET repeats == {i \in DOMAIN df.rows : \E j \in 1..(i - 1) : df.rows[j] = df.rows[i]}
        keep == [i \in DOMAIN df.rows |->
                    i \notin repeats \/ \E j \in repeats : j < i]
        idx == SelectIdx(keep, 1, Len(df.rows))
    IN  [df EXCEPT !.rows = [k \in DOMAIN idx |-> df.rows[idx[k]]]]

drop_duplicates(df) ==
    LET keep == [i \in DOMAIN df.rows |-> \A j \in 1..(i - 1) : df.rows[j] # df.rows[i]]
        idx == SelectIdx(keep, 1, Len(df.rows))
    IN  [df EXCEPT !.rows = [k \in DOMAIN idx |-> df.rows[idx[k]]]]

\* a report that marks the columns as modified when no row was removed too
DuplicatesReportAlways(initial_rows, cleaned, report) ==
    LET duplicates_removed == initial_rows - Len(cleaned.rows)
        sub == [rows_removed |-> duplicates_removed,
                percentage |-> IF initial_rows > 0
                               THEN Rat(duplicates_removed * 100, initial_rows)
                               ELSE Zero]
    IN  IF IsSet(report.columns_modified)
        THEN Outcome(cleaned,
                     [report EXCEPT !.operations = SetItem(@, "duplicates", sub),
                                    !.columns_modified.set = @ \cup Range(cleaned.columns)],
                     NoError)
        ELSE Outcome(cleaned,
                     [report EXCEPT !.operations = SetItem(@, "duplicates", sub)],
                     AttributeError("update"))

\* a report that keeps the duplicates report of an earlier stage of the call
DuplicatesReportKeepFirst(initial_rows, cleaned, report) ==
    LET duplicates_removed == initial_rows - Len(cleaned.rows)
        sub == [rows_removed |-> duplicates_removed,
                percentage |-> IF initial_rows > 0
                               THEN Rat(duplicates_removed * 100, initial_rows)
                               ELSE Zero]
    IN  IF duplicates_removed > 0
        THEN IF IsSet(report.columns_modified)
             THEN Outcome(cleaned,
                          [report EXCEPT !.operations = (IF "duplicates" \in DOMAIN @ THEN @ ELSE SetItem(@, "duplicates", sub)),
                                         !.columns_modified.set = @ \cup Range(cleaned.columns)],
                          NoError)
             ELSE Outcome(cleaned,
                          [report EXCEPT !.operations = (IF "duplicates" \in DOMAIN @ THEN @ ELSE SetItem(@, "duplicates", sub))],
                          AttributeError("update"))
        ELSE Outcome(cleaned,
                     [report EXCEPT !.operations = (IF "duplicates" \in DOMAIN @ THEN @ ELSE SetItem(@, "duplicates", sub))],
                     NoError)

\* lines 97-105, with cleaned the dataset drop_duplicates returned
DuplicatesReport(initial_rows, cleaned, report) ==
    LET duplicates_removed == initial_rows - Len(cleaned.rows)
        sub == [rows_removed |-> duplicates_removed,
                percentage |-> IF initial_rows > 0
                               THEN Rat(duplicates_removed * 100, initial_rows)
                               ELSE Zero]
    IN  IF duplicates_removed > 0
        THEN IF IsSet(report.columns_modified)
             THEN Outcome(cleaned,
                          [report EXCEPT !.operations = SetItem(@, "duplicates", sub),
                                         !.columns_modified.set = @ \cup Range(cleaned.columns)],
                          NoError)
             ELSE Outcome(cleaned,
                          [report EXCEPT !.operations = SetItem(@, "duplicates", sub)],
                          AttributeError("update"))
        ELSE Outcome(cleaned,
                     [report EXCEPT !.operations = SetItem(@, "duplicates", sub)],
                     NoError)

_remove_duplicates(df, report) ==
    DuplicatesReport(Len(df.rows), drop_duplicates(df), report)

\* a fill that falls back on 0 when the column has no value to fill with
FillValueDefault(df, c, strategy, numeric, few, mode_value) ==
    IF strategy # "auto" THEN [value |-> NaN, used |-> strategy]
    ELSE IF numeric
    THEN (IF few THEN [value |-> IF mean(df, c) = NaN THEN Zero ELSE mean(df, c),
                       used |-> "mean"]
          ELSE [value |-> IF median(df, c) = NaN THEN Zero ELSE median(df, c),
                used |-> "median"])
    ELSE IF mode_value # <<>> THEN [value |-> mode_value[1], used |-> "mode"]
    ELSE [value |-> Zero, used |-> "mode"]

\* lines 127-139: the value that fills column c under the strategy, and the
\* strategy recorded; a NaN value fills nothing
FillValue(df, c, strategy, numeric, few, mode_value) ==
    IF strategy # "auto" THEN [value |-> NaN, used |-> strategy]
    ELSE IF numeric
    THEN (IF few THEN [value |-> mean(df, c), used |-> "mean"]
          ELSE [value |-> median(df, c), used |-> "median"])
    ELSE IF mode_value # <<>> THEN [value |-> mode_value[1], used |-> "mode"]
    ELSE [value |-> NaN, used |-> strategy]

\* lines 121-141, for a column with missing_count > 0 that fill fills
MissingReport(acc, c, column, missing_count, fill, filled) ==
    IF ~IsSet(acc.report.columns_modified)
    THEN [acc EXCEPT !.err = AttributeError("add")]
    ELSE [df |-> filled,
          report |-> [acc.report EXCEPT !.columns_modified.set = @ \cup {column}],
          sub |-> SetItem(acc.sub, column,
                          [initial_missing |-> missing_count,
                           strategy_used |-> fill.used,
                           remaining_missing |-> isnull_sum(filled, c)]),
          err |-> NoError]

MissingFill(acc, c, missing_count, fill) ==
    MissingReport(acc, c, acc.df.columns[c], missing_count, fill,
                  fillna(acc.df, c, fill.value))

\* a comparison of the ratio that takes the mean at the ratio 0.05 too
MissingCountInclusive(acc, c, strategy, missing_count) ==
    IF missing_count = 0 THEN acc
    ELSE MissingFill(acc, c, missing_count,
            FillValue(acc.df, c, strategy, is_numeric_dtype(acc.df.dtypes[c]),
                      missing_count * MeanRatioDen <= MeanRatioNum * Len(acc.df.rows),
                      mode(acc.df, c)))

MissingCount(acc, c, strategy, missing_count) ==
    IF missing_count = 0 THEN acc
    ELSE MissingFill(acc, c, missing_count,
            FillValue(acc.df, c, strategy, is_numeric_dtype(acc.df.dtypes[c]),
                      missing_count * MeanRatioDen < MeanRatioNum * Len(acc.df.rows),
                      mode(acc.df, c)))

\* lines 118-141: one column of _handle_missing_values; acc.sub is missing_report
MissingColumn(acc, c, strategy) ==
    IF acc.err # NoError THEN acc
    ELSE MissingCount(acc, c, strategy, isnull_sum(acc.df, c))

RECURSIVE MissingLoop(_, _, _)
\* the loop of line 117 from column position c on
MissingLoop(acc, c, strategy) ==
    IF c > Len(acc.df.columns) THEN acc
    ELSE MissingLoop(MissingColumn(acc, c, strategy), c + 1, strategy)

\* the end of a stage loop: line 143, line 184
StoreReport(acc, key) ==
    IF acc.err # NoError THEN Outcome(acc.df, acc.report, acc.err)
    ELSE Outcome(acc.df, [acc.report EXCEPT !.operations = SetItem(@, key, acc.sub)],
                 NoError)

_handle_missing_values(df, report, strategy) ==
    StoreReport(MissingLoop([df |-> df, report |-> report, sub |-> EmptyDict,
                             err |-> NoError], 1, strategy),
                "missing_values")

\* lines 159-161: |x - mean| / std > threshold, with v the square of std;
\* 0/0 and a NaN std compare False
\* a score that is not the root of the squared deviation over the variance:
\* (x - mean)^2 / std^2 > threshold
ZFlaggedSquared(x, m, v, threshold) ==
    /\ ~isnull(x)
    /\ ~isnull(v)
    /\ RLess(Zero, v)
    /\ \/ RLess(threshold, Zero)
       \/ RLess(RMul(threshold, v), Square(RSub(x, m)))

\* a score without np.abs: only the cells above the mean are flagged
ZFlaggedAbove(x, m, v, threshold) ==
    /\ ~isnull(x)
    /\ ~isnull(v)
    /\ RLess(Zero, v)
    /\ RLess(m, x)
    /\ RLess(RMul(Square(threshold), v), Square(RSub(x, m)))

\* a score that takes a division by a zero std as beyond every threshold
ZFlaggedZeroStd(x, m, v, threshold) ==
    /\ ~isnull(x)
    /\ ~isnull(v)
    /\ \/ v = Zero
       \/ RLess(threshold, Zero)
       \/ RLess(RMul(Square(threshold), v), Square(RSub(x, m)))

ZFlagged(x, m, v, threshold) ==
    /\ ~isnull(x)
    /\ ~isnull(v)
    /\ RLess(Zero, v)
    /\ \/ RLess(threshold, Zero)
       \/ RLess(RMul(Square(threshold), v), Square(RSub(x, m)))

\* fences that flag the values on them too
IqrFlaggedInclusive(x, Q1, Q3) ==
    /\ ~isnull(x)
    /\ ~isnull(Q1)
    /\ \/ RLeq(x, RSub(Q1, RMul(IqrFactor, RSub(Q3, Q1))))
       \/ RLeq(RAdd(Q3, RMul(IqrFactor, RSub(Q3, Q1))), x)

\* lines 165-169
IqrFlagged(x, Q1, Q3) ==
    /\ ~isnull(x)
    /\ ~isnull(Q1)
    /\ \/ RLess(x, RSub(Q1, RMul(IqrFactor, RSub(Q3, Q1))))
       \/ RLess(RAdd(Q3, RMul(IqrFactor, RSub(Q3, Q1))), x)

ZOutliers(df, c, m, v, threshold) ==
    {r \in DOMAIN df.rows : ZFlagged(df.rows[r][c], m, v, threshold)}

IqrOutliers(df, c, Q1, Q3) ==
    {r \in DOMAIN df.rows : IqrFlagged(df.rows[r][c], Q1, Q3)}

\* lines 158-169: the rows of column c that the method flags
Outliers(df, c, method, threshold) ==
    IF method = "zscore" THEN ZOutliers(df, c, mean(df, c), var(df, c), threshold)
    ELSE IqrOutliers(df, c, quantile(df, c, 1, 4), quantile(df, c, 3, 4))

RECURSIVE ReplaceFrom(_, _, _, _)
\* the flagged cells of column c from row r on, each replaced with the median
\* of the column as the replacements before it left it
ReplaceFrom(df, c, outliers, r) ==
    IF r > Len(df.rows) THEN df
    ELSE IF r \in outliers
    THEN ReplaceFrom([df EXCEPT !.rows[r][c] = median(df, c)], c, outliers, r + 1)
    ELSE ReplaceFrom(df, c, outliers, r + 1)

\* a replacement that computes the median anew for every flagged cell
ReplaceIncrementally(df, c, outliers, value) == ReplaceFrom(df, c, outliers, 1)

\* a replacement that drops the rows of the flagged cells
ReplaceDropping(df, c, outliers, value) ==
    [df EXCEPT !.rows = [k \in DOMAIN SelectIdx([r \in DOMAIN df.rows |-> r \notin outliers],
                                                1, Len(df.rows)) |->
        df.rows[SelectIdx([r \in DOMAIN df.rows |-> r \notin outliers], 1, Len(df.rows))[k]]]]

\* line 182: the flagged cells of column c become value
Replace(df, c, outliers, value) ==
    [df EXCEPT !.rows = [r \in DOMAIN df.rows |->
        IF r \in outliers THEN [df.rows[r] EXCEPT ![c] = value] ELSE df.rows[r]]]

\* a report that marks every column of the dataset as modified, as
\* _remove_duplicates does
OutlierReportAllColumns(acc, c, method, threshold, outliers) ==
    IF outliers = {} THEN acc
    ELSE IF ~IsSet(acc.report.columns_modified)
    THEN [acc EXCEPT !.err = AttributeError("add")]
    ELSE [df |-> Replace(acc.df, c, outliers, median(acc.df, c)),
          report |-> [acc.report EXCEPT !.columns_modified.set = @ \cup Range(acc.df.columns)],
          sub |-> SetItem(acc.sub, acc.df.columns[c],
                          [outliers_found |-> Cardinality(outliers),
                           percentage |-> Rat(Cardinality(outliers) * 100, Len(acc.df.rows)),
                           method |-> method,
                           threshold |-> threshold]),
          err |-> NoError]

\* lines 173-182
OutlierReport(acc, c, method, threshold, outliers) ==
    IF outliers = {} THEN acc
    ELSE IF ~IsSet(acc.report.columns_modified)
    THEN [acc EXCEPT !.err = AttributeError("add")]
    ELSE [df |-> Replace(acc.df, c, outliers, median(acc.df, c)),
          report |-> [acc.report EXCEPT !.columns_modified.set = @ \cup {acc.df.columns[c]}],
          sub |-> SetItem(acc.sub, acc.df.columns[c],
                          [outliers_found |-> Cardinality(outliers),
                           percentage |-> Rat(Cardinality(outliers) * 100, Len(acc.df.rows)),
                           method |-> method,
                           threshold |-> threshold]),
          err |-> NoError]

\* lines 157-182: one numeric column of _handle_outliers; acc.sub is outliers_report
OutlierColumn(acc, c, method, threshold) ==
    IF acc.err # NoError THEN acc
    ELSE IF method \notin {"zscore", "iqr"}
    THEN [acc EXCEPT !.err = Raise("ValueError",
                                   "Unsupported outlier detection method", <<method>>)]
    ELSE OutlierReport(acc, c, method, threshold,
                       Outliers(acc.df, c, method, threshold))

RECURSIVE OutlierLoop(_, _, _, _, _)
\* the loop of line 157 over the k-th and later numeric columns cols
OutlierLoop(acc, cols, k, method, threshold) ==
    IF k > Len(cols) THEN acc
    ELSE OutlierLoop(OutlierColumn(acc, cols[k], method, threshold),
                     cols, k + 1, method, threshold)

_handle_outliers(df, report, method, threshold) ==
    StoreReport(OutlierLoop([df |-> df, report |-> report, sub |-> EmptyDict,
                             err |-> NoError], numeric_columns(df), 1, method, threshold),
                "outliers")

\* DataFrame.describe() of one column, in the coordinates of the cells, with
\* the scale the column carries
Stats(df, c) ==
    [count |-> Len(Values(df, c)), mean |-> mean(df, c), var |-> var(df, c),
     min |-> min(df, c), q25 |-> quantile(df, c, 1, 4),
     q50 |-> quantile(df, c, 1, 2), q75 |-> quantile(df, c, 3, 4),
     max |-> max(df, c), scale |-> df.scale[c]]

\* DataFrame.describe().to_dict() of the columns at the positions cols
describe(df, cols) ==
    [name \in {df.columns[c] : c \in Range(cols)} |->
        Stats(df, CHOOSE c \in Range(cols) : df.columns[c] = name)]

\* a zero scale is replaced by 1 (sklearn _handle_zeros_in_scale)
Scale(a, b2) == [a |-> a, b2 |-> IF b2 = Zero THEN Num(1, 1) ELSE b2]

\* StandardScaler / MinMaxScaler fit_transform on column c: the new affine map
\* of the column
fit_transform(df, c, method) ==
    IF Len(Values(df, c)) = 0 THEN df.scale[c]
    ELSE IF method = "standard" THEN Scale(mean(df, c), popvar(df, c))
    ELSE Scale(min(df, c), Square(RSub(max(df, c), min(df, c))))

\* line 206
Scaled(df, cols, method) ==
    [df EXCEPT !.scale = [c \in DOMAIN df.columns |->
        IF c \in Range(cols) THEN fit_transform(df, c, method) ELSE df.scale[c]]]

\* a report that counts every column of the dataset as normalized
NormalizeReportAllCount(df, report, method, cols, names, scaled) ==
    IF ~IsSet(report.columns_modified)
    THEN Outcome(scaled, report, AttributeError("update"))
    ELSE Outcome(scaled,
                 [report EXCEPT
                    !.columns_modified.set = @ \cup Range(names),
                    !.operations = SetItem(@, "normalization",
                        [method |-> method,
                         columns_normalized |-> Len(df.columns),
                         columns |-> names,
                         original_stats |-> describe(df, cols),
                         normalized_stats |-> describe(scaled, cols)])],
                 NoError)

\* lines 205-219, with scaled the dataset after line 206
NormalizeReport(df, report, method, cols, names, scaled) ==
    IF ~IsSet(report.columns_modified)
    THEN Outcome(scaled, report, AttributeError("update"))
    ELSE Outcome(scaled,
                 [report EXCEPT
                    !.columns_modified.set = @ \cup Range(names),
                    !.operations = SetItem(@, "normalization",
                        [method |-> method,
                         columns_normalized |-> Len(cols),
                         columns |-> names,
                         original_stats |-> describe(df, cols),
                         normalized_stats |-> describe(scaled, cols)])],
                 NoError)

NormalizeColumns(df, report, method, cols) ==
    IF Len(cols) > 0
    THEN IF method \notin {"standard", "minmax"}
         THEN Outcome(df, report,
                      Raise("ValueError", "Unsupported normalization method", <<method>>))
         ELSE NormalizeReport(df, report, method, cols,
                              [k \in DOMAIN cols |-> df.columns[cols[k]]],
                              Scaled(df, cols, method))
    ELSE Outcome(df,
                 [report EXCEPT !.operations = SetItem(@, "normalization", EmptyDict)],
                 NoError)

_normalize_data(df, report, method) ==
    NormalizeColumns(df, report, method, numeric_columns(df))

(***************************************************************************)
(* The state.                                                              *)
(*   heap    the DataFrame objects by reference (0 is None); a free        *)
(*           reference holds Free                                          *)
(*   self    the attributes of the one DataCleaner object, by name         *)
(*   mine    per caller, the reference of the dataset it owns              *)
(*   pc      per caller, where its call of the DataCleaner is              *)
(*   api     per caller, the public method it called                       *)
(*   arg     per caller, the arguments df and operations of clean_data     *)
(*   i       per caller, how many operations the loop of line 45 has run   *)
(*   ret     per caller, what the call returned or raised                  *)
(*   calls   per caller, the calls it may still make                       *)
(*   asked   per caller, the stage parameters its call asked for           *)
(*   given   per caller, the value of the dataset it passed (history)      *)
(*   log     per caller, the stages its call has run (history)             *)
(*   chain   per caller, the public method that returned the dataset it    *)
(*           passed, "none" for the dataset it owns (history)              *)
(*   summary per caller, the lines get_cleaning_summary returned to it     *)
(*           since its last call of a cleaning method, none if it has not  *)
(*           asked                                                         *)
(***************************************************************************)
VARIABLES heap, self, mine, pc, api, arg, i, ret, calls, asked, given, log, chain,
          summary

vars == <<heap, self, mine, pc, api, arg, i, ret, calls, asked, given, log, chain,
          summary>>

Threads == {1, 2}
Refs == 1..(3 * Cardinality(Threads) + 2)
Free == [t |-> "free"]
None == [t |-> "None"]

Deref(h, r) == IF r = 0 THEN None ELSE h[r]

supported_operations ==
    <<"Remove duplicates", "Handle missing values", "Remove outliers", "Normalize data">>

\* the operation names a caller may pass; the last is not supported
OperationNames == Range(supported_operations) \cup {"Drop columns"}

OperationLists == UNION {[1..n -> OperationNames] : n \in 0..MaxOps}

Strategies == {"auto", "mean"}
OutlierMethods == {"zscore", "iqr", "mad"}
Thresholds == {Num(3, 1), Num(1, 2)}
NormalizationMethods == {"standard", "minmax", "robust"}

columns == <<"A", "B">>
Schemas == {<<"float64", "object">>, <<"object", "object">>}
NumValues == {1, 2}
StrValues == {"x"}

Cells(dtype) ==
    IF dtype = "object" THEN {Str(s) : s \in StrValues} \cup {NaN}
    ELSE {Num(n, 1) : n \in NumValues} \cup {NaN}

RowsOf(dtypes) ==
    {row \in [DOMAIN dtypes -> UNION {Cells(d) : d \in Range(dtypes)}] :
        \A c \in DOMAIN dtypes : row[c] \in Cells(dtypes[c])}

Datasets ==
    UNION {{Frame(columns, dtypes, rows) :
              rows \in UNION {[1..n -> RowsOf(dtypes)] : n \in 0..MaxRows}} :
           dtypes \in Schemas}

NoReturn == [df |-> 0, report |-> EmptyDict, err |-> NoError]

\* the caller holds no summary
NoSummary == <<>>

\* getattr(self, name, default)
getattr(s, name, default) == IF name \in DOMAIN s THEN s[name] ELSE default

\* the references a caller holds
CallerRefs(a, r) ==
    ({mine[t] : t \in Threads} \cup {a[t].df : t \in Threads}
        \cup {r[t].df : t \in Threads}) \ {0}

\* the least reference outside live
Fresh(live) == CHOOSE r \in Refs : r \notin live /\ \A q \in Refs \ live : r <= q

\* the heap h with every reference outside live freed
Collect(h, live) == [r \in Refs |-> IF r \in live THEN h[r] ELSE Free]

\* an assignment of the object itself where the code copies it
NoCopy(src, fresh) == src

\* DataFrame.copy() of the object at src: the reference of the new object
copy(src, fresh) == fresh

\* line 64: the ValueError clean_data raises for the exception e
Wrap(e) == Raise("ValueError", "Error cleaning data", <<e.msg>> \o e.args)

\* a validation that reports the first unsupported name only
FirstInvalid(operations, supported) ==
    LET bad == SelectSeq(operations, LAMBDA op : op \notin Range(supported))
    IN  IF bad = <<>> THEN bad ELSE <<bad[1]>>

\* line 40
invalid_ops(operations, supported) ==
    SelectSeq(operations, LAMBDA op : op \notin Range(supported))

\* the stage parameters a stage reads from the object (lines 114, 152-153, 193)
Parameters(s, operation) ==
    CASE operation = "Handle missing values" ->
           [missing_strategy |-> getattr(s, "missing_strategy", "auto")]
      [] operation = "Remove outliers" ->
           [outlier_method |-> getattr(s, "outlier_method", "zscore"),
            outlier_threshold |-> getattr(s, "outlier_threshold", DefaultThreshold)]
      [] operation = "Normalize data" ->
           [normalization_method |-> getattr(s, "normalization_method", "standard")]
      [] OTHER -> EmptyDict

\* lines 46-53: the stage of one operation on the working dataset
RunStage(operation, df, report, s) ==
    LET p == Parameters(s, operation)
    IN  CASE operation = "Remove duplicates" -> _remove_duplicates(df, report)
          [] operation = "Handle missing values" ->
               _handle_missing_values(df, report, p.missing_strategy)
          [] operation = "Remove outliers" ->
               _handle_outliers(df, report, p.outlier_method, p.outlier_threshold)
          [] operation = "Normalize data" ->
               _normalize_data(df, report, p.normalization_method)
          [] OTHER -> Outcome(df, report, NoError)

\* a loop that runs the requested operations in the order of
\* supported_operations instead of the order of the list
CanonicalOperation(operations, k) ==
    LET rank(op) == CHOOSE n \in DOMAIN supported_operations :
                        supported_operations[n] = op
        ahead(n) == Cardinality({m \in DOMAIN operations :
                        \/ rank(operations[m]) < rank(operations[n])
                        \/ rank(operations[m]) = rank(operations[n]) /\ m < n})
    IN  operations[CHOOSE n \in DOMAIN operations : ahead(n) = k]

\* line 45: the operation the loop runs after k operations
NextOperation(operations, k) == operations[k + 1]

RECURSIVE Pipeline(_, _, _, _)
\* lines 45-53 as a function: the outcome of the operations after the k-th on
\* acc, with the stage parameters of the object s
Pipeline(acc, operations, k, s) ==
    IF k >= Len(operations) \/ acc.err # NoError THEN acc
    ELSE Pipeline(RunStage(operations[k + 1], acc.df, acc.report, s),
                  operations, k + 1, s)

\* the orders list(set) can give the elements of a set
RECURSIVE Orders(_)
Orders(S) ==
    IF S = {} THEN {<<>>}
    ELSE UNION {{<<x>> \o rest : rest \in Orders(S \ {x})} : x \in S}

\* line 58: list(columns_modified)
ListOf(cm) == IF IsSet(cm) THEN Orders(cm.set) ELSE {cm.list}

(***************************************************************************)
(* Init: the DataCleaner after _init_ (lines 14-23); caller 1 holds a      *)
(* dataset or None.                                                        *)
(***************************************************************************)
InitObject ==
    [original_df |-> 0, cleaned_df |-> 0, cleaning_report |-> EmptyDict,
     supported_operations |-> supported_operations]

InitCallers ==
    /\ self = InitObject
    /\ pc = [t \in Threads |-> "idle"]
    /\ api = [t \in Threads |-> "none"]
    /\ arg = [t \in Threads |-> [df |-> 0, operations |-> <<>>]]
    /\ i = [t \in Threads |-> 0]
    /\ ret = [t \in Threads |-> NoReturn]
    /\ asked = [t \in Threads |-> EmptyDict]
    /\ given = [t \in Threads |-> None]
    /\ log = [t \in Threads |-> <<>>]
    /\ chain = [t \in Threads |-> "none"]
    /\ summary = [t \in Threads |-> NoSummary]

Init ==
    /\ \E d \in Datasets \cup {None} :
          /\ heap = [r \in Refs |-> IF r = 1 /\ d # None THEN d ELSE Free]
          /\ mine = [t \in Threads |-> IF t = 1 /\ d # None THEN 1 ELSE 0]
    /\ calls = [t \in Threads |-> IF t = 1 THEN MaxCalls ELSE 0]
    /\ InitCallers

(***************************************************************************)
(* The public methods: a caller at rest calls one with the dataset it      *)
(* holds or with the dataset its last call returned (src/app.py lines      *)
(* 503-517).                                                               *)
(***************************************************************************)
AtRest(t) == pc[t] \in {"idle", "done", "failed"} /\ calls[t] > 0

Inputs(t) == IF ret[t].df # 0 THEN {mine[t], ret[t].df} ELSE {mine[t]}

\* caller t enters clean_data(df, operations), having asked for parameters a
Enter(t, name, df, operations, a) ==
    LET arg1 == [arg EXCEPT ![t] = [df |-> df, operations |-> operations]]
        ret1 == [ret EXCEPT ![t] = NoReturn]
    IN  /\ pc' = [pc EXCEPT ![t] = "entry"]
        /\ api' = [api EXCEPT ![t] = name]
        /\ arg' = arg1
        /\ ret' = ret1
        /\ i' = [i EXCEPT ![t] = 0]
        /\ calls' = [calls EXCEPT ![t] = @ - 1]
        /\ asked' = [asked EXCEPT ![t] = a]
        /\ given' = [given EXCEPT ![t] = Deref(heap, df)]
        /\ log' = [log EXCEPT ![t] = <<>>]
        /\ chain' = [chain EXCEPT ![t] = IF df # 0 /\ df = ret[t].df THEN api[t] ELSE "none"]
        /\ heap' = Collect(heap, CallerRefs(arg1, ret1)
                                   \cup ({self'.original_df, self'.cleaned_df} \ {0}))
        /\ summary' = [summary EXCEPT ![t] = NoSummary]
        /\ UNCHANGED mine

clean_data(t) ==
    /\ AtRest(t)
    /\ \E df \in Inputs(t), operations \in OperationLists :
          /\ self' = self
          /\ Enter(t, "clean_data", df, operations, EmptyDict)

remove_duplicates(t) ==
    /\ AtRest(t)
    /\ \E df \in Inputs(t) :
          /\ self' = self
          /\ Enter(t, "remove_duplicates", df, <<"Remove duplicates">>, EmptyDict)

handle_missing_values(t) ==
    /\ AtRest(t)
    /\ \E df \in Inputs(t), strategy \in Strategies :
          /\ self' = SetItem(self, "missing_strategy", strategy)
          /\ Enter(t, "handle_missing_values", df, <<"Handle missing values">>,
                   [missing_strategy |-> strategy])

\* remove_outliers, and handle_outliers which delegates to it (line 84)
remove_outliers(t) ==
    /\ AtRest(t)
    /\ \E df \in Inputs(t), method \in OutlierMethods, threshold \in Thresholds :
          /\ self' = SetItem(SetItem(self, "outlier_method", method),
                             "outlier_threshold", threshold)
          /\ Enter(t, "remove_outliers", df, <<"Remove outliers">>,
                   [outlier_method |-> method, outlier_threshold |-> threshold])

normalize_data(t) ==
    /\ AtRest(t)
    /\ \E df \in Inputs(t), method \in NormalizationMethods :
          /\ self' = SetItem(self, "normalization_method", method)
          /\ Enter(t, "normalize_data", df, <<"Normalize data">>,
                   [normalization_method |-> method])

(***************************************************************************)
(* clean_data, lines 27-64, in steps: the entry (lines 28-42), one step    *)
(* per operation of the loop (lines 45-53), the end (lines 56-60).  An     *)
(* exception in any step is caught at line 62 and raised again at line 64. *)
(***************************************************************************)
Fail(t, e) ==
    /\ pc' = [pc EXCEPT ![t] = "failed"]
    /\ ret' = [ret EXCEPT ![t] = [df |-> 0, report |-> EmptyDict, err |-> Wrap(e)]]

\* lines 31-42, with r1 and r2 the references of the two copies
Begin(t, df, live, original_df, cleaned_df, bad) ==
    /\ self' = [self EXCEPT !["original_df"] = original_df,
                            !["cleaned_df"] = cleaned_df,
                            !["cleaning_report"] =
                                [original_shape |-> shape(heap[df]),
                                 operations |-> EmptyDict,
                                 columns_modified |-> [set |-> {}]]]
    /\ heap' = Collect([r \in Refs |-> IF r \in live THEN heap[r] ELSE heap[df]],
                       live \cup {original_df, cleaned_df})
    /\ IF bad # <<>>
       THEN Fail(t, Raise("ValueError", "Unsupported cleaning operations", bad))
       ELSE /\ pc' = [pc EXCEPT ![t] = "loop"]
            /\ UNCHANGED ret

Copies(t, df, live, r1) ==
    Begin(t, df, live, copy(df, r1), copy(df, Fresh(live \cup {r1})),
          invalid_ops(arg[t].operations, self.supported_operations))

\* lines 28-42
Entry(t) ==
    /\ pc[t] = "entry"
    /\ IF arg[t].df = 0 \/ empty(Deref(heap, arg[t].df))
       THEN /\ Fail(t, Raise("ValueError", "DataFrame is empty or None", <<>>))
            /\ UNCHANGED <<heap, self>>
       ELSE Copies(t, arg[t].df, CallerRefs(arg, ret), Fresh(CallerRefs(arg, ret)))
    /\ UNCHANGED <<mine, api, arg, i, calls, asked, given, log, chain, summary>>

\* a loop that goes on to the next operation when a stage raises
Swallow(t, operation, before, out, live, target) ==
    /\ self' = [self EXCEPT !["cleaned_df"] = target,
                            !["cleaning_report"] = out.report]
    /\ heap' = Collect([heap EXCEPT ![target] = out.df], live \cup {target})
    /\ log' = [log EXCEPT ![t] = Append(@,
                 [operation |-> operation,
                  parameters |-> Parameters(self, operation),
                  before |-> before, after |-> out.df, err |-> out.err])]
    /\ i' = [i EXCEPT ![t] = @ + 1]
    /\ UNCHANGED <<pc, ret>>

\* the stage of operation has mapped the working dataset before to out, which
\* is written to the object at target
Store(t, operation, before, out, live, target) ==
    /\ self' = [self EXCEPT !["cleaned_df"] = target,
                            !["cleaning_report"] = out.report]
    /\ heap' = Collect([heap EXCEPT ![target] = out.df], live \cup {target})
    /\ log' = [log EXCEPT ![t] = Append(@,
                 [operation |-> operation,
                  parameters |-> Parameters(self, operation),
                  before |-> before, after |-> out.df, err |-> out.err])]
    /\ IF out.err # NoError
       THEN /\ Fail(t, out.err)
            /\ UNCHANGED i
       ELSE /\ i' = [i EXCEPT ![t] = @ + 1]
            /\ UNCHANGED <<pc, ret>>

\* drop_duplicates gives a new object, the other stages write in place
Run(t, operation, live) ==
    Store(t, operation, heap[self.cleaned_df],
          RunStage(operation, heap[self.cleaned_df], self.cleaning_report, self),
          live,
          IF operation = "Remove duplicates"
          THEN Fresh(live \cup {self.cleaned_df}) ELSE self.cleaned_df)

\* lines 45-53: the next operation of the list runs on self.cleaned_df
Stage(t) ==
    /\ pc[t] = "loop"
    /\ i[t] < Len(arg[t].operations)
    /\ Run(t, NextOperation(arg[t].operations, i[t]),
           CallerRefs(arg, ret) \cup {self.original_df})
    /\ UNCHANGED <<mine, api, arg, calls, asked, given, chain, summary>>

\* line 60, with report the report after lines 56-58
Return(t, report) ==
    /\ self' = [self EXCEPT !["cleaning_report"] = report]
    /\ ret' = [ret EXCEPT ![t] = [df |-> self.cleaned_df, report |-> report,
                                  err |-> NoError]]

\* final statistics that count the rows removed from the working dataset
\* against itself
StaleFinalReport(report, original_df, cleaned_df, modified) ==
    SetItem(SetItem(SetItem(report,
        "final_shape", shape(cleaned_df)),
        "total_rows_removed", shape(cleaned_df)[1] - shape(cleaned_df)[1]),
        "columns_modified", [list |-> modified])

\* lines 56-58: the report with the final statistics; modified is the list
\* that line 58 makes of columns_modified
FinalReport(report, original_df, cleaned_df, modified) ==
    SetItem(SetItem(SetItem(report,
        "final_shape", shape(cleaned_df)),
        "total_rows_removed", shape(original_df)[1] - shape(cleaned_df)[1]),
        "columns_modified", [list |-> modified])

\* lines 56-60
Finish(t) ==
    /\ pc[t] = "loop"
    /\ i[t] = Len(arg[t].operations)
    /\ \E modified \in ListOf(self.cleaning_report.columns_modified) :
          Return(t, FinalReport(self.cleaning_report, heap[self.original_df],
                                heap[self.cleaned_df], modified))
    /\ pc' = [pc EXCEPT ![t] = "done"]
    /\ UNCHANGED <<heap, mine, api, arg, i, calls, asked, given, log, chain, summary>>

(***************************************************************************)
(* One caller: the calls of the object follow one another, as in the       *)
(* single script run of src/app.py.                                        *)
(***************************************************************************)
Next ==
    \/ clean_data(1)
    \/ remove_duplicates(1)
    \/ handle_missing_values(1)
    \/ remove_outliers(1)
    \/ normalize_data(1)
    \/ Entry(1)
    \/ Stage(1)
    \/ Finish(1)

Spec == Init /\ [][Next]_vars

(***************************************************************************)
(* get_cleaning_summary, lines 229-258.  The string returned is the        *)
(* sequence of its lines; a line is the text of its f-string and the       *)
(* values formatted into it.                                               *)
(***************************************************************************)
Line(text, values) == [text |-> text, values |-> values]

\* format(x, '.2f') of a number x >= 0: the nearest hundredth, a tie to the even one
Format2f(x) ==
    LET q == (100 * x.n) \div x.d
        r == (100 * x.n) % x.d
        h == IF 2 * r > x.d \/ (2 * r = x.d /\ q % 2 = 1) THEN q + 1 ELSE q
    IN  [units |-> h \div 100, hundredths |-> h % 100]

\* dict.items() of a stage report: the columns in the order the stage loop
\* inserted them, the order of the columns of the dataset
items(d) == SelectSeq(columns, LAMBDA col : col \in DOMAIN d)

\* lines 233-234
ShapeLines(report) ==
    <<Line("Original dataset shape", <<report.original_shape>>),
      Line("Final dataset shape", <<report.final_shape>>)>>

\* lines 236-238
DuplicateLines(operations) ==
    IF "duplicates" \in DOMAIN operations
    THEN <<Line("Duplicates removed",
                <<operations["duplicates"].rows_removed,
                  Format2f(operations["duplicates"].percentage)>>)>>
    ELSE <<>>

\* lines 240-243
MissingLines(operations) ==
    IF "missing_values" \in DOMAIN operations
    THEN [k \in DOMAIN items(operations["missing_values"]) |->
            Line("Missing values in",
                 <<items(operations["missing_values"])[k],
                   operations["missing_values"][items(operations["missing_values"])[k]].initial_missing,
                   operations["missing_values"][items(operations["missing_values"])[k]].strategy_used>>)]
    ELSE <<>>

\* lines 245-248
OutlierLines(operations) ==
    IF "outliers" \in DOMAIN operations
    THEN [k \in DOMAIN items(operations["outliers"]) |->
            Line("Outliers in",
                 <<items(operations["outliers"])[k],
                   operations["outliers"][items(operations["outliers"])[k]].outliers_found,
                   Format2f(operations["outliers"][items(operations["outliers"])[k]].percentage)>>)]
    ELSE <<>>

\* lines 250-252
NormalizationLines(operations) ==
    IF "normalization" \in DOMAIN operations
    THEN <<Line("Normalized",
                <<operations["normalization"].columns_normalized,
                  operations["normalization"].method>>)>>
    ELSE <<>>

\* lines 256-258: the string returned when a line raised
ErrorSummary == <<Line("Error generating cleaning summary", <<>>)>>

\* the keys whose lookup raises KeyError: the two shapes and operations of
\* the report (lines 233-236), the two fields of a normalization report
\* (line 252)
KeyErrors(report) ==
    \/ ~({"original_shape", "final_shape", "operations"} \subseteq DOMAIN report)
    \/ /\ "normalization" \in DOMAIN report.operations
       /\ ~({"columns_normalized", "method"} \subseteq DOMAIN report.operations["normalization"])

Rendering(report) ==
    ShapeLines(report) \o DuplicateLines(report.operations)
        \o MissingLines(report.operations) \o OutlierLines(report.operations)
        \o NormalizationLines(report.operations)

\* a summary that leaves a normalization report without fields out
SummaryWithoutEmptySections(report) ==
    IF ~({"original_shape", "final_shape", "operations"} \subseteq DOMAIN report)
    THEN ErrorSummary
    ELSE IF KeyErrors(report)
    THEN ShapeLines(report) \o DuplicateLines(report.operations)
             \o MissingLines(report.operations) \o OutlierLines(report.operations)
    ELSE Rendering(report)

get_cleaning_summary(report) ==
    IF KeyErrors(report) THEN ErrorSummary ELSE Rendering(report)

(***************************************************************************)
(* The calls of the object and the summary: between its calls of the       *)
(* cleaning methods the caller may ask for the summary of the report the   *)
(* object holds.                                                           *)
(***************************************************************************)
\* lines 229-258, called by a caller at rest
GetSummary(t) ==
    /\ pc[t] \in {"idle", "done", "failed"}
    /\ summary' = [summary EXCEPT ![t] = get_cleaning_summary(self.cleaning_report)]
    /\ UNCHANGED <<heap, self, mine, pc, api, arg, i, ret, calls, asked, given, log, chain>>

NextSummary ==
    \/ clean_data(1)
    \/ remove_duplicates(1)
    \/ handle_missing_values(1)
    \/ remove_outliers(1)
    \/ normalize_data(1)
    \/ Entry(1)
    \/ Stage(1)
    \/ Finish(1)
    \/ GetSummary(1)

SpecSummary == Init /\ [][NextSummary]_vars

(***************************************************************************)
(* Two callers of the one object, each calling a public method with        *)
(* parameters as src/app.py does (lines 503-517), their steps interleaved. *)
(***************************************************************************)
ConcDatasets ==
    {d \in Datasets :
        /\ d.dtypes = <<"float64", "object">>
        /\ Len(d.rows) = MaxRows
        /\ d.rows[1][1] = Num(1, 1)
        /\ \A r \in DOMAIN d.rows : d.rows[r][2] = Str("x")}

InitConc ==
    /\ \E d1 \in ConcDatasets, d2 \in ConcDatasets :
          heap = [r \in Refs |-> IF r = 1 THEN d1 ELSE IF r = 2 THEN d2 ELSE Free]
    /\ mine = [t \in Threads |-> t]
    /\ calls = [t \in Threads |-> MaxConcCalls]
    /\ InitCallers

NextConc ==
    \E t \in Threads :
        \/ remove_duplicates(t)
        \/ handle_missing_values(t)
        \/ remove_outliers(t)
        \/ normalize_data(t)
        \/ Entry(t)
        \/ Stage(t)
        \/ Finish(t)

SpecConc == InitConc /\ [][NextConc]_vars

(***************************************************************************)
(* The stages on longer datasets: one caller calling the public stage      *)
(* methods on a mixed dataset of up to MaxStageRows rows.                  *)
(***************************************************************************)
StageDatasets ==
    {Frame(columns, <<"float64", "object">>, rows) :
        rows \in UNION {[1..n -> RowsOf(<<"float64", "object">>)] : n \in 0..MaxStageRows}}

InitStage ==
    /\ \E d \in StageDatasets :
          heap = [r \in Refs |-> IF r = 1 THEN d ELSE Free]
    /\ mine = [t \in Threads |-> IF t = 1 THEN 1 ELSE 0]
    /\ calls = [t \in Threads |-> IF t = 1 THEN MaxCalls ELSE 0]
    /\ InitCallers

NextStage ==
    \/ remove_duplicates(1)
    \/ handle_missing_values(1)
    \/ remove_outliers(1)
    \/ normalize_data(1)
    \/ Entry(1)
    \/ Stage(1)
    \/ Finish(1)

SpecStage == InitStage /\ [][NextStage]_vars

(***************************************************************************)
(* The stages on single columns: one caller calling a public stage method  *)
(* on a dataset whose numeric column A is either a long column with up to  *)
(* two missing cells (the lengths around 1/0.05 rows) or a short column    *)
(* of values far apart; the object column B holds "x", and in the long     *)
(* datasets possibly a missing first cell.                                 *)
(***************************************************************************)
ColumnValues == {10, 11, 12, 13, 1000}

\* the long column of n cells: k missing cells, then 1s, then last
LongColumn(n, k, last) ==
    [r \in 1..n |-> IF r <= k THEN NaN ELSE IF r = n THEN Num(last, 1) ELSE Num(1, 1)]

LongDatasets ==
    {Frame(columns, <<"float64", "object">>,
           [r \in 1..n |-> <<LongColumn(n, k, last)[r], IF r = 1 THEN b ELSE Str("x")>>]) :
        n \in (MaxLongRows - 2)..MaxLongRows, k \in 0..2, last \in NumValues,
        b \in Cells("object")}

ShortDatasets ==
    {Frame(columns, <<"float64", "object">>,
           [r \in DOMAIN col |-> <<Num(col[r], 1), Str("x")>>]) :
        col \in UNION {[1..n -> ColumnValues] : n \in (MaxColumnRows - 1)..MaxColumnRows}}

InitColumn ==
    /\ \E d \in LongDatasets \cup ShortDatasets :
          heap = [r \in Refs |-> IF r = 1 THEN d ELSE Free]
    /\ mine = [t \in Threads |-> IF t = 1 THEN 1 ELSE 0]
    /\ calls = [t \in Threads |-> IF t = 1 THEN MaxColumnCalls ELSE 0]
    /\ InitCallers

NextColumn ==
    \/ remove_duplicates(1)
    \/ handle_missing_values(1)
    \/ remove_outliers(1)
    \/ normalize_data(1)
    \/ Entry(1)
    \/ Stage(1)
    \/ Finish(1)

SpecColumn == InitColumn /\ [][NextColumn]_vars

(***************************************************************************)
(* Handle missing values on object columns of several values: one caller   *)
(* calling handle_missing_values on a dataset whose object column B holds  *)
(* up to MaxModeRows cells, each "x", "y" or missing; the numeric column A *)
(* holds 1.                                                                *)
(***************************************************************************)
ModeCells == {Str(s) : s \in Range(StrOrder)} \cup {NaN}

ModeDatasets ==
    {Frame(columns, <<"float64", "object">>,
           [r \in DOMAIN col |-> <<Num(1, 1), col[r]>>]) :
        col \in UNION {[1..n -> ModeCells] : n \in 1..MaxModeRows}}

InitMode ==
    /\ \E d \in ModeDatasets :
          heap = [r \in Refs |-> IF r = 1 THEN d ELSE Free]
    /\ mine = [t \in Threads |-> IF t = 1 THEN 1 ELSE 0]
    /\ calls = [t \in Threads |-> IF t = 1 THEN MaxColumnCalls ELSE 0]
    /\ InitCallers

NextMode ==
    \/ handle_missing_values(1)
    \/ Entry(1)
    \/ Stage(1)
    \/ Finish(1)

SpecMode == InitMode /\ [][NextMode]_vars

(***************************************************************************)
(* Properties of clean_data.                                               *)
(***************************************************************************)
Started(t) == pc[t] \in {"loop", "done", "failed"}

\* the working dataset the k-th stage of caller t's call is to run on: the
\* copy of the dataset passed, then the output of the stage before
Working(t, k) == IF k = 1 THEN given[t] ELSE log[t][k - 1].after

EmptyInput(t) == given[t] = None \/ Len(Deref(<<given[t]>>, 1).rows) = 0

\* C1: clean_data runs the requested operations in the order of the caller's
\* list, each on the working dataset the stage before it produced, and has
\* run all of them when it returns.
C1_OperationsInCallerOrder ==
    \A t \in Threads :
        Started(t) =>
            /\ Len(log[t]) <= Len(arg[t].operations)
            /\ \A k \in DOMAIN log[t] :
                  /\ log[t][k].operation = arg[t].operations[k]
                  /\ log[t][k].before = Working(t, k)
            /\ pc[t] = "done" => Len(log[t]) = Len(arg[t].operations)

\* a call that ran Handle missing values and then Remove duplicates, both
\* changing the working dataset
C1_Witness ==
    /\ pc[1] = "done"
    /\ arg[1].operations = <<"Handle missing values", "Remove duplicates">>
    /\ log[1][1].after # log[1][1].before
    /\ log[1][2].after # log[1][2].before

\* C2: clean_data of an absent dataset or of a dataset with zero rows fails
\* with the empty-dataset error, and no stage has run.
C2_EmptyInputFails ==
    \A t \in Threads :
        (Started(t) /\ EmptyInput(t)) =>
            /\ pc[t] = "failed"
            /\ ret[t].err = Wrap(Raise("ValueError", "DataFrame is empty or None", <<>>))
            /\ log[t] = <<>>

\* a failed call on a dataset with columns and zero rows, with operations
C2_Witness ==
    /\ pc[1] = "failed"
    /\ given[1] # None
    /\ EmptyInput(1)
    /\ arg[1].operations = <<"Remove duplicates", "Normalize data">>

\* the names of the list that are not among the four supported ones
Unsupported(operations) ==
    SelectSeq(operations, LAMBDA op :
        op \notin {"Remove duplicates", "Handle missing values",
                   "Remove outliers", "Normalize data"})

\* C3: with an unsupported name in the list, clean_data of a dataset with
\* rows fails with an error that lists every unsupported name of the list,
\* and no stage has run.
C3_UnsupportedOperationsFail ==
    \A t \in Threads :
        (Started(t) /\ ~EmptyInput(t) /\ Unsupported(arg[t].operations) # <<>>) =>
            /\ pc[t] = "failed"
            /\ ret[t].err = Wrap(Raise("ValueError", "Unsupported cleaning operations",
                                       Unsupported(arg[t].operations)))
            /\ log[t] = <<>>

\* a failed call whose list holds a supported operation that would remove a
\* row, followed by an unsupported one
C3_Witness ==
    /\ pc[1] = "failed"
    /\ arg[1].operations = <<"Remove duplicates", "Drop columns">>
    /\ ~EmptyInput(1)
    /\ Len(given[1].rows) = 2
    /\ given[1].rows[1] = given[1].rows[2]
    /\ log[1] = <<>>

\* C4: when clean_data returns, all stages have run, final_shape is the shape
\* of the dataset returned, original_shape the shape of the dataset passed, and
\* total_rows_removed the rows passed minus the rows returned.
C4_ReportFinalized ==
    \A t \in Threads :
        pc[t] = "done" =>
            /\ Len(log[t]) = Len(arg[t].operations)
            /\ ret[t].report.original_shape = shape(given[t])
            /\ ret[t].report.final_shape = shape(heap[ret[t].df])
            /\ ret[t].report.total_rows_removed =
                  Len(given[t].rows) - Len(heap[ret[t].df].rows)

\* a call that returned a dataset with fewer rows than it was passed
C4_Witness ==
    /\ pc[1] = "done"
    /\ ret[1].report.total_rows_removed = 1
    /\ ret[1].report.original_shape = <<2, 2>>
    /\ ret[1].report.final_shape = <<1, 2>>

\* C6: during and after a call the dataset the caller passed holds the rows
\* and cells it held when it was passed.
C6_InputUnchanged ==
    \A t \in Threads :
        (pc[t] # "idle" /\ arg[t].df # 0) => heap[arg[t].df] = given[t]

\* a call that has filled a missing cell of its working dataset
C6_Witness ==
    /\ pc[1] = "done"
    /\ arg[1].operations = <<"Handle missing values">>
    /\ log[1][1].after # log[1][1].before
    /\ heap[arg[1].df] = log[1][1].before

\* the columns of names, in the order the dataset declares them
DeclarationOrder(df, names) ==
    SelectSeq(df.columns, LAMBDA column : column \in names)

\* C5: when clean_data returns, columns_modified lists the modified columns
\* in the order the dataset declares them.
C5_ColumnsModifiedInDeclarationOrder ==
    \A t \in Threads :
        pc[t] = "done" =>
            ret[t].report.columns_modified.list =
                DeclarationOrder(given[t], Range(ret[t].report.columns_modified.list))

\* what clean_data of a DataCleaner just constructed returns for the dataset
\* and the operations: the dataset, the sub-reports and the set of modified
\* columns
Fresh_clean_data(df, operations) ==
    Pipeline(Outcome(df,
                     [original_shape |-> shape(df), operations |-> EmptyDict,
                      columns_modified |-> [set |-> {}]],
                     NoError),
             operations, 0, InitObject)

\* C7: what clean_data returns depends on the dataset and the operations
\* alone: it is what a DataCleaner that served no call returns for them.
C7_CleanDataIsPure ==
    \A t \in Threads :
        (pc[t] = "done" /\ api[t] = "clean_data") =>
            /\ heap[ret[t].df] = Fresh_clean_data(given[t], arg[t].operations).df
            /\ ret[t].report.operations =
                  Fresh_clean_data(given[t], arg[t].operations).report.operations

\* C9: a stage that raises is the last stage of its call to run: the call has
\* failed with the stage's error, the report has no final statistics, and the
\* working dataset is as the stages left it.
C9_StageFailureAborts ==
    \A t \in Threads :
        \A k \in DOMAIN log[t] :
            log[t][k].err # NoError =>
                /\ k = Len(log[t])
                /\ pc[t] = "failed"
                /\ ret[t].err = Wrap(log[t][k].err)
                /\ "final_shape" \notin DOMAIN self.cleaning_report
                /\ heap[self.cleaned_df] = log[t][k].after
                /\ log[t][k].before = Working(t, k)

\* a call that filled a missing cell and then failed in Normalize data, with
\* the cell still filled in the working dataset
C9_Witness ==
    /\ pc[1] = "failed"
    /\ arg[1].operations = <<"Handle missing values", "Normalize data">>
    /\ Len(log[1]) = 2
    /\ log[1][1].after # given[1]
    /\ log[1][2].err # NoError
    /\ heap[self.cleaned_df] = log[1][1].after

\* C8: a stage of a call runs with the parameters the call asked for and on
\* the working dataset of that call, whatever other calls of the object are
\* under way.
C8_StagesUseOwnParameters ==
    \A t \in Threads :
        \A k \in DOMAIN log[t] :
            /\ \A name \in DOMAIN asked[t] : log[t][k].parameters[name] = asked[t][name]
            /\ log[t][k].before = Working(t, k)

\* the stages of the calls that ran Remove duplicates to its end
Deduplications ==
    {e \in UNION {Range(log[t]) : t \in Threads} :
        e.operation = "Remove duplicates" /\ e.err = NoError}

\* the position of the first row of rows equal to row
FirstOccurrence(rows, row) ==
    CHOOSE k \in DOMAIN rows :
        rows[k] = row /\ \A j \in 1..(k - 1) : rows[j] # row

\* C10: Remove duplicates leaves one row for each distinct row of its input
\* and no others, no two of them equal, in the order in which those rows
\* first occur in the input; columns and types are as they were.
C10_KeepsFirstOccurrences ==
    \A e \in Deduplications :
        LET b == e.before.rows
            a == e.after.rows
        IN  /\ Range(a) = Range(b)
            /\ \A p \in DOMAIN a : \A q \in DOMAIN a : p # q => a[p] # a[q]
            /\ \A p \in DOMAIN a : \A q \in DOMAIN a :
                  p < q => FirstOccurrence(b, a[p]) < FirstOccurrence(b, a[q])
            /\ e.after = [e.before EXCEPT !.rows = a]

\* a call removed the third row of a dataset, a repeat of the first row with
\* a different row between them
C10_Witness ==
    \E e \in Deduplications :
        /\ Len(e.before.rows) = 3
        /\ e.before.rows[1] = e.before.rows[3]
        /\ e.before.rows[1] # e.before.rows[2]
        /\ e.after.rows = <<e.before.rows[1], e.before.rows[2]>>

\* C11: remove_duplicates of the dataset that remove_duplicates returned
\* removes no row: it returns the dataset it was passed and reports zero rows
\* removed.
C11_SecondRemovalRemovesNothing ==
    \A t \in Threads :
        (pc[t] = "done" /\ api[t] = "remove_duplicates"
            /\ chain[t] = "remove_duplicates") =>
            /\ heap[ret[t].df] = given[t]
            /\ ret[t].report.operations["duplicates"].rows_removed = 0
            /\ ret[t].report.total_rows_removed = 0

\* the second of two calls in a row, the first of which removed two of the
\* three rows of the caller's dataset
C11_Witness ==
    /\ pc[1] = "done"
    /\ api[1] = "remove_duplicates"
    /\ chain[1] = "remove_duplicates"
    /\ Len(heap[mine[1]].rows) = 3
    /\ Len(given[1].rows) = 1
    /\ Len(heap[ret[1].df].rows) = 1

(***************************************************************************)
(* Properties of Handle missing values.                                    *)
(***************************************************************************)
\* caller t's call of handle_missing_values with the strategy has returned
Imputed(t, strategy) ==
    /\ pc[t] = "done"
    /\ api[t] = "handle_missing_values"
    /\ asked[t].missing_strategy = strategy

\* the positions of the columns of df with a missing cell
WithMissing(df) ==
    {c \in DOMAIN df.columns : \E r \in DOMAIN df.rows : df.rows[r][c] = NaN}

\* C12: under the strategy auto, a numeric column with missing cells is
\* reported with strategy mean when fewer than 5 in 100 of its cells are
\* missing, and with strategy median otherwise, also at exactly 5 in 100.
C12_MeanBelowRatio ==
    \A t \in Threads :
        Imputed(t, "auto") =>
            \A c \in WithMissing(given[t]) :
                given[t].dtypes[c] \in {"int64", "float64"} =>
                    ret[t].report.operations["missing_values"][given[t].columns[c]].strategy_used =
                        IF isnull_sum(given[t], c) * 100 < 5 * Len(given[t].rows)
                        THEN "mean" ELSE "median"

\* a column of 21 cells, one of them missing, is reported with strategy mean
C12_Witness ==
    /\ Imputed(1, "auto")
    /\ Len(given[1].rows) = 21
    /\ isnull_sum(given[1], 1) = 1
    /\ ret[1].report.operations["missing_values"]["A"].strategy_used = "mean"

\* C13: whatever the strategy, a column that Handle missing values reports
\* and that had a value has no missing cell left.
C13_NoneRemaining ==
    \A t \in Threads :
        (pc[t] = "done" /\ api[t] = "handle_missing_values") =>
            \A c \in WithMissing(given[t]) :
                Len(Values(given[t], c)) > 0 =>
                    ret[t].report.operations["missing_values"][given[t].columns[c]].remaining_missing = 0

\* C14: a call with the strategy mean or median on a dataset with a missing
\* cell in a column that is not numeric fails.
C14_NumericStrategyOnObjectColumnFails ==
    \A t \in Threads :
        (/\ pc[t] \in {"done", "failed"}
         /\ api[t] = "handle_missing_values"
         /\ asked[t].missing_strategy \in {"mean", "median"}
         /\ given[t] # None
         /\ \E c \in WithMissing(given[t]) : given[t].dtypes[c] \notin {"int64", "float64"}) =>
            /\ pc[t] = "failed"
            /\ ret[t].err # NoError

(***************************************************************************)
(* Properties of Remove outliers.                                          *)
(***************************************************************************)
\* caller t's call of remove_outliers with the method has returned
Removed(t, method) ==
    /\ pc[t] = "done"
    /\ api[t] = "remove_outliers"
    /\ asked[t].outlier_method = method

\* the positions of the numeric columns of df
NumericPositions(df) == {c \in DOMAIN df.columns : df.dtypes[c] \in {"int64", "float64"}}

\* the cell of row r of column c of df lies more than T standard deviations
\* from the mean of the column: with n values of mean m,
\* (x - m)^2 * (n - 1) > T^2 * sum of (v - m)^2
ZScoreAbove(df, c, r, T) ==
    LET v == Values(df, c)
        x == df.rows[r][c]
    IN  /\ x # NaN
        /\ Len(v) >= 2
        /\ RLess(RMul(RMul(T, T), Deviations(v, mean(df, c))),
                 RMul(Num(Len(v) - 1, 1), RMul(RSub(x, mean(df, c)), RSub(x, mean(df, c)))))

ZScoreSet(df, c, T) == {r \in DOMAIN df.rows : ZScoreAbove(df, c, r, T)}

\* C15: under zscore with threshold T, the cells of a numeric column whose
\* distance from the column mean is more than T standard deviations hold the
\* column median afterwards, every other cell of the column is as it was, and
\* the report counts exactly those cells.
C15_ZScoreFlagsExactly ==
    \A t \in Threads :
        Removed(t, "zscore") =>
            \A c \in NumericPositions(given[t]) :
                LET flagged == ZScoreSet(given[t], c, asked[t].outlier_threshold)
                    report == ret[t].report.operations["outliers"]
                    column == given[t].columns[c]
                IN  /\ \A r \in DOMAIN given[t].rows :
                          heap[ret[t].df].rows[r][c] =
                              IF r \in flagged THEN median(given[t], c)
                              ELSE given[t].rows[r][c]
                    /\ IF flagged = {} THEN column \notin DOMAIN report
                       ELSE /\ column \in DOMAIN report
                            /\ report[column].outliers_found = Cardinality(flagged)

\* a call under zscore replaced a cell below the mean and a cell above it and
\* left a cell that is not the median as it was
C15_Witness ==
    /\ Removed(1, "zscore")
    /\ \E lo \in DOMAIN given[1].rows, hi \in DOMAIN given[1].rows, r \in DOMAIN given[1].rows :
          /\ RLess(given[1].rows[lo][1], mean(given[1], 1))
          /\ RLess(mean(given[1], 1), given[1].rows[hi][1])
          /\ {lo, hi} \subseteq ZScoreSet(given[1], 1, asked[1].outlier_threshold)
          /\ heap[ret[1].df].rows[lo][1] # given[1].rows[lo][1]
          /\ heap[ret[1].df].rows[hi][1] # given[1].rows[hi][1]
          /\ r \notin ZScoreSet(given[1], 1, asked[1].outlier_threshold)
          /\ heap[ret[1].df].rows[r][1] = given[1].rows[r][1]
          /\ given[1].rows[r][1] # median(given[1], 1)

\* the cells of column c of df that the stage with parameters p flags
Flagged(df, c, p) == Outliers(df, c, p.outlier_method, p.outlier_threshold)

\* C16: every cell that Remove outliers flags in a column holds afterwards the
\* median the column had before the stage.
C16_ReplacedWithOneMedian ==
    \A t \in Threads :
        (Removed(t, "zscore") \/ Removed(t, "iqr")) =>
            \A c \in NumericPositions(given[t]) :
                \A r \in Flagged(given[t], c, asked[t]) :
                    heap[ret[t].df].rows[r][c] = median(given[t], c)

\* a call replaced two cells of a column of two values with their median,
\* which is neither of them
C16_Witness ==
    /\ Removed(1, "zscore")
    /\ Len(Values(given[1], 1)) = 2
    /\ Cardinality(Flagged(given[1], 1, asked[1])) = 2
    /\ \A r \in Flagged(given[1], 1, asked[1]) :
          /\ heap[ret[1].df].rows[r][1] = median(given[1], 1)
          /\ given[1].rows[r][1] # median(given[1], 1)

\* C17: Remove outliers leaves the cells of the columns that are not numeric
\* as they were, reports no such column and marks no such column as modified.
C17_OnlyNumericColumns ==
    \A t \in Threads :
        (Removed(t, "zscore") \/ Removed(t, "iqr")) =>
            \A c \in DOMAIN given[t].columns \ NumericPositions(given[t]) :
                /\ Column(heap[ret[t].df], c) = Column(given[t], c)
                /\ given[t].columns[c] \notin DOMAIN ret[t].report.operations["outliers"]
                /\ given[t].columns[c] \notin Range(ret[t].report.columns_modified.list)

\* a call replaced cells of the numeric column A of a dataset whose object
\* column B has a value and a missing cell
C17_Witness ==
    /\ Removed(1, "zscore")
    /\ Column(heap[ret[1].df], 1) # Column(given[1], 1)
    /\ ret[1].report.columns_modified.list = <<"A">>
    /\ NaN \in Range(Column(given[1], 2))
    /\ Str("x") \in Range(Column(given[1], 2))

\* C18: remove_outliers with a method other than zscore and iqr fails on any
\* dataset with rows, with the error that names the method.
C18_UnknownOutlierMethodFails ==
    \A t \in Threads :
        (/\ pc[t] \in {"done", "failed"}
         /\ api[t] = "remove_outliers"
         /\ asked[t].outlier_method \notin {"zscore", "iqr"}
         /\ ~EmptyInput(t)) =>
            /\ pc[t] = "failed"
            /\ ret[t].err = Wrap(Raise("ValueError", "Unsupported outlier detection method",
                                       <<asked[t].outlier_method>>))

(***************************************************************************)
(* Properties of Normalize data.                                           *)
(***************************************************************************)
\* C19: normalize_data with a method other than standard and minmax fails on
\* any dataset with rows, with the error that names the method.
C19_UnknownNormalizationMethodFails ==
    \A t \in Threads :
        (/\ pc[t] \in {"done", "failed"}
         /\ api[t] = "normalize_data"
         /\ asked[t].normalization_method \notin {"standard", "minmax"}
         /\ ~EmptyInput(t)) =>
            /\ pc[t] = "failed"
            /\ ret[t].err = Wrap(Raise("ValueError", "Unsupported normalization method",
                                       <<asked[t].normalization_method>>))

(***************************************************************************)
(* Scenario C: the column 10, 12, 11, 13, 1000 under zscore, threshold 3.0 *)
(***************************************************************************)
NumColumn(values) == [r \in DOMAIN values |-> Num(values[r], 1)]

ScenarioC(t) ==
    /\ Removed(t, "zscore")
    /\ asked[t].outlier_threshold = Num(3, 1)
    /\ Column(given[t], 1) = NumColumn(<<10, 12, 11, 13, 1000>>)

\* C20 as stated: in scenario C the cell 1000 is flagged and replaced with the
\* median 11.
C20_ScenarioFlags1000 ==
    \A t \in Threads :
        ScenarioC(t) =>
            /\ Column(heap[ret[t].df], 1) = NumColumn(<<10, 12, 11, 13, 11>>)
            /\ "A" \in DOMAIN ret[t].report.operations["outliers"]

\* C20 as amended: in scenario C no cell is flagged (1000 lies about 1.79
\* standard deviations from the mean): the column is returned as it was, the
\* outliers report is empty and no column is marked as modified.
C20_ScenarioFlagsNothing ==
    \A t \in Threads :
        ScenarioC(t) =>
            /\ Column(heap[ret[t].df], 1) = NumColumn(<<10, 12, 11, 13, 1000>>)
            /\ ret[t].report.operations["outliers"] = EmptyDict
            /\ ret[t].report.columns_modified.list = <<>>

\* the call of scenario C has returned, with 1000 in the column
C20_Witness ==
    /\ ScenarioC(1)
    /\ heap[ret[1].df].rows[5][1] = Num(1000, 1)

(***************************************************************************)
(* More properties of Remove outliers.                                     *)
(***************************************************************************)
\* column c of df has at least two values, all of them equal: its standard
\* deviation is zero
Constant(df, c) ==
    /\ Len(Values(df, c)) >= 2
    /\ \A a \in Range(Values(df, c)), b \in Range(Values(df, c)) : a = b

BelowFence(x, Q1, Q3) ==
    RLess(RMul(Num(2, 1), x), RSub(RMul(Num(5, 1), Q1), RMul(Num(3, 1), Q3)))

\* the cell x lies strictly above Q3 + 1.5 * (Q3 - Q1), that is 2x > 5 Q3 - 3 Q1
AboveFence(x, Q1, Q3) ==
    RLess(RSub(RMul(Num(5, 1), Q3), RMul(Num(3, 1), Q1)), RMul(Num(2, 1), x))

\* the cell x lies on a fence
OnFence(x, Q1, Q3) ==
    \/ RMul(Num(2, 1), x) = RSub(RMul(Num(5, 1), Q1), RMul(Num(3, 1), Q3))
    \/ RMul(Num(2, 1), x) = RSub(RMul(Num(5, 1), Q3), RMul(Num(3, 1), Q1))

\* the rows of column c of df outside the fences of the quartiles Q1 and Q3
Outside(df, c, Q1, Q3) ==
    {r \in DOMAIN df.rows :
        /\ df.rows[r][c] # NaN
        /\ BelowFence(df.rows[r][c], Q1, Q3) \/ AboveFence(df.rows[r][c], Q1, Q3)}

\* the rows of column c of df outside the fences of its quartiles
IqrSet(df, c) == Outside(df, c, quantile(df, c, 1, 4), quantile(df, c, 3, 4))

\* caller t's call returned column c with the cells of the rows in S replaced
\* by m and the others as they were, and reported exactly the rows in S
ReplacedExactly(t, c, S, m) ==
    /\ \A r \in DOMAIN given[t].rows :
          heap[ret[t].df].rows[r][c] = IF r \in S THEN m ELSE given[t].rows[r][c]
    /\ IF S = {}
       THEN given[t].columns[c] \notin DOMAIN ret[t].report.operations["outliers"]
       ELSE /\ given[t].columns[c] \in DOMAIN ret[t].report.operations["outliers"]
            /\ ret[t].report.operations["outliers"][given[t].columns[c]].outliers_found =
                  Cardinality(S)

\* C22: under iqr, whatever the threshold, the cells of a numeric column
\* strictly below Q1 - 1.5 IQR or strictly above Q3 + 1.5 IQR hold the column
\* median afterwards, every other cell (a cell on a fence too) is as it was,
\* and the report counts exactly those cells.
C22_IqrFlagsOutsideFences ==
    \A t \in Threads :
        Removed(t, "iqr") =>
            \A c \in NumericPositions(given[t]) :
                ReplacedExactly(t, c, IqrSet(given[t], c), median(given[t], c))

\* a call under iqr with the threshold 0.5 replaced a cell above the upper
\* fence and left a cell on a fence as it was
C22_Witness ==
    /\ Removed(1, "iqr")
    /\ asked[1].outlier_threshold = Num(1, 2)
    /\ \E hi \in DOMAIN given[1].rows, on \in DOMAIN given[1].rows :
          /\ AboveFence(given[1].rows[hi][1], quantile(given[1], 1, 1, 4),
                        quantile(given[1], 1, 3, 4))
          /\ heap[ret[1].df].rows[hi][1] # given[1].rows[hi][1]
          /\ OnFence(given[1].rows[on][1], quantile(given[1], 1, 1, 4),
                     quantile(given[1], 1, 3, 4))
          /\ heap[ret[1].df].rows[on][1] = given[1].rows[on][1]
    /\ ret[1].report.operations["outliers"]["A"].outliers_found = 1

(***************************************************************************)
(* More properties of Remove duplicates.                                   *)
(***************************************************************************)
\* the k-th stage of caller t's call was Remove duplicates and removed a row
RemovedRows(t, k) ==
    /\ log[t][k].operation = "Remove duplicates"
    /\ Len(log[t][k].after.rows) < Len(log[t][k].before.rows)

\* C23: when a Remove duplicates stage of a call removed a row, every column
\* of the dataset is in columns_modified; when the call ran nothing but Remove
\* duplicates and no row was removed, columns_modified is empty.
C23_RemovalMarksEveryColumn ==
    \A t \in Threads :
        pc[t] = "done" =>
            /\ (\E k \in DOMAIN log[t] : RemovedRows(t, k)) =>
                   Range(given[t].columns) \subseteq Range(ret[t].report.columns_modified.list)
            /\ (/\ log[t] # <<>>
                /\ \A k \in DOMAIN log[t] :
                      log[t][k].operation = "Remove duplicates" /\ ~RemovedRows(t, k)) =>
                   ret[t].report.columns_modified.list = <<>>

\* a call ran Remove duplicates twice: the first stage removed a row, the
\* second none, and both columns are marked
C23_Witness ==
    /\ pc[1] = "done"
    /\ Len(log[1]) = 2
    /\ RemovedRows(1, 1)
    /\ log[1][2].operation = "Remove duplicates"
    /\ ~RemovedRows(1, 2)
    /\ Range(ret[1].report.columns_modified.list) = {"A", "B"}

(***************************************************************************)
(* More properties of Handle missing values.                               *)
(***************************************************************************)
\* the most frequent value of the sequence v that comes first in v
FirstMostFrequent(v) ==
    v[CHOOSE k \in DOMAIN v :
        /\ v[k] \in MostFrequent(v)
        /\ \A j \in 1..(k - 1) : v[j] \notin MostFrequent(v)]

\* C24: under auto, the missing cells of a column that is not numeric and has
\* a value hold, afterwards, the most frequent value of the column, and of
\* several most frequent values the one that comes first in row order.
C24_FirstEncounteredMode ==
    \A t \in Threads :
        Imputed(t, "auto") =>
            \A c \in WithMissing(given[t]) :
                (given[t].dtypes[c] = "object" /\ Len(Values(given[t], c)) > 0) =>
                    \A r \in DOMAIN given[t].rows :
                        given[t].rows[r][c] = NaN =>
                            heap[ret[t].df].rows[r][c] = FirstMostFrequent(Values(given[t], c))

\* column c of df has a cell and every cell of it is missing
AllMissing(df, c) == Len(df.rows) > 0 /\ Len(Values(df, c)) = 0

\* C25: under auto, a column whose cells are all missing, numeric or not, is
\* returned with every cell still missing and is reported with
\* remaining_missing equal to initial_missing, the number of its cells.
C25_AllMissingStaysUnresolved ==
    \A t \in Threads :
        Imputed(t, "auto") =>
            \A c \in DOMAIN given[t].columns :
                AllMissing(given[t], c) =>
                    /\ \A r \in DOMAIN given[t].rows : heap[ret[t].df].rows[r][c] = NaN
                    /\ given[t].columns[c] \in DOMAIN ret[t].report.operations["missing_values"]
                    /\ ret[t].report.operations["missing_values"][given[t].columns[c]].initial_missing =
                           Len(given[t].rows)
                    /\ ret[t].report.operations["missing_values"][given[t].columns[c]].remaining_missing =
                           Len(given[t].rows)

\* a call under auto has returned a dataset of two rows whose numeric column
\* and whose object column were both all missing, and reports both
C25_Witness ==
    /\ Imputed(1, "auto")
    /\ Len(given[1].rows) = 2
    /\ AllMissing(given[1], 1)
    /\ AllMissing(given[1], 2)
    /\ ret[1].report.operations["missing_values"]["A"].remaining_missing = 2
    /\ ret[1].report.operations["missing_values"]["B"].remaining_missing = 2

(***************************************************************************)
(* More properties of Normalize data.                                      *)
(***************************************************************************)
\* the stages of caller t's call that ran the operation
StagesOf(t, operation) == {k \in DOMAIN log[t] : log[t][k].operation = operation}

\* the last stage of caller t's call that ran the operation
LastStage(t, operation) ==
    CHOOSE k \in StagesOf(t, operation) : \A j \in StagesOf(t, operation) : j <= k

\* the names of the numeric columns of df, in column order
NumericNames(df) ==
    SelectSeq(df.columns,
              LAMBDA name : \E c \in NumericPositions(df) : df.columns[c] = name)

\* C26: after a call that ran Normalize data on a dataset with a numeric
\* column, the normalization report lists exactly the numeric columns of the
\* dataset the stage ran on, in column order, columns_normalized is their
\* number, each of them is in columns_modified, and every Normalize data stage
\* left the columns that are not numeric cell for cell as they were.
C26_NormalizationReportsNumericColumns ==
    \A t \in Threads :
        (pc[t] = "done" /\ StagesOf(t, "Normalize data") # {}) =>
            /\ \A k \in StagesOf(t, "Normalize data") :
                  \A c \in DOMAIN log[t][k].before.columns \ NumericPositions(log[t][k].before) :
                      /\ Column(log[t][k].after, c) = Column(log[t][k].before, c)
                      /\ log[t][k].after.scale[c] = log[t][k].before.scale[c]
            /\ NumericPositions(log[t][LastStage(t, "Normalize data")].before) # {} =>
                  /\ ret[t].report.operations["normalization"].columns =
                         NumericNames(log[t][LastStage(t, "Normalize data")].before)
                  /\ ret[t].report.operations["normalization"].columns_normalized =
                         Len(NumericNames(log[t][LastStage(t, "Normalize data")].before))
                  /\ Range(NumericNames(log[t][LastStage(t, "Normalize data")].before))
                         \subseteq Range(ret[t].report.columns_modified.list)

\* normalize_data has returned a dataset of a numeric column A, whose cells
\* it rescaled, and an object column B with a value: the report lists A alone
C26_Witness ==
    /\ pc[1] = "done"
    /\ api[1] = "normalize_data"
    /\ given[1].dtypes = <<"float64", "object">>
    /\ Str("x") \in Range(Column(given[1], 2))
    /\ heap[ret[1].df].scale[1] # given[1].scale[1]
    /\ ret[1].report.operations["normalization"].columns = <<"A">>
    /\ ret[1].report.operations["normalization"].columns_normalized = 1
    /\ ret[1].report.columns_modified.list = <<"A">>

(***************************************************************************)
(* Properties of get_cleaning_summary.                                     *)
(***************************************************************************)
\* caller t's call has returned and the caller has asked for the summary
Summarized(t) == pc[t] = "done" /\ summary[t] # NoSummary

\* the texts of the lines of a summary, in the order of the sections
SectionOrder ==
    <<"Original dataset shape", "Final dataset shape", "Duplicates removed",
      "Missing values in", "Outliers in", "Normalized">>

SectionRank(text) == CHOOSE k \in DOMAIN SectionOrder : SectionOrder[k] = text

\* the number of lines of the summary s with the text
LinesOf(s, text) == Cardinality({k \in DOMAIN s : s[k].text = text})

\* the number of lines the report of an operation is to give: none when the
\* operation did not run, one per column for a report by column
Facts(t, operation, key, byColumn) ==
    IF StagesOf(t, operation) = {} THEN 0
    ELSE IF byColumn THEN Cardinality(DOMAIN ret[t].report.operations[key])
    ELSE 1

\* C27: the summary of the report of a call that returned has the lines of
\* the original shape and the final shape, then those of the duplicates, of
\* the missing values, of the outliers and of the normalization, in this order
\* whatever the order of the operations, one line per fact of the report and
\* no line for an operation that did not run.
C27_SummaryInFixedOrder ==
    \A t \in Threads :
        Summarized(t) =>
            /\ summary[t] # ErrorSummary
            /\ \A k \in DOMAIN summary[t] : summary[t][k].text \in Range(SectionOrder)
            /\ \A j \in DOMAIN summary[t], k \in DOMAIN summary[t] :
                  j < k => SectionRank(summary[t][j].text) <= SectionRank(summary[t][k].text)
            /\ LinesOf(summary[t], "Original dataset shape") = 1
            /\ LinesOf(summary[t], "Final dataset shape") = 1
            /\ LinesOf(summary[t], "Duplicates removed") =
                   Facts(t, "Remove duplicates", "duplicates", FALSE)
            /\ LinesOf(summary[t], "Missing values in") =
                   Facts(t, "Handle missing values", "missing_values", TRUE)
            /\ LinesOf(summary[t], "Outliers in") =
                   Facts(t, "Remove outliers", "outliers", TRUE)
            /\ LinesOf(summary[t], "Normalized") =
                   Facts(t, "Normalize data", "normalization", FALSE)

\* caller t's call ran Normalize data on a dataset without a numeric column
NoNumericNormalize(t) ==
    StagesOf(t, "Normalize data") # {} /\ NumericPositions(given[t]) = {}

\* C30: a call that returned after running Normalize data on a dataset
\* without a numeric column leaves a normalization report without fields, and
\* the summary is then the error text; the summary of every other call that
\* returned starts with the lines of the original and of the final shape.
C30_SummaryFailsOnEmptyNormalization ==
    \A t \in Threads :
        /\ (pc[t] = "done" /\ NoNumericNormalize(t)) =>
               DOMAIN ret[t].report.operations["normalization"] = {}
        /\ Summarized(t) =>
               IF NoNumericNormalize(t) THEN summary[t] = ErrorSummary
               ELSE /\ Len(summary[t]) >= 2
                    /\ summary[t][1] = Line("Original dataset shape", <<shape(given[t])>>)
                    /\ summary[t][2] = Line("Final dataset shape", <<shape(heap[ret[t].df])>>)

\* clean_data has returned after Remove duplicates and Normalize data on a
\* dataset of two object columns, and the summary is the error text
C30_Witness ==
    /\ Summarized(1)
    /\ arg[1].operations = <<"Remove duplicates", "Normalize data">>
    /\ given[1].dtypes = <<"object", "object">>
    /\ "duplicates" \in DOMAIN ret[1].report.operations
    /\ DOMAIN ret[1].report.operations["normalization"] = {}
    /\ summary[1] = ErrorSummary

(***************************************************************************)
(* More properties of clean_data.                                          *)
(***************************************************************************)
\* C28: in a call that returned, a stage other than Remove duplicates leaves
\* the number of rows as it was and every stage leaves the column names as
\* they were; final_shape has the column count of original_shape,
\* total_rows_removed is not negative, and it is 0 when the list of
\* operations has no Remove duplicates.
C28_OnlyDuplicatesRemoveRows ==
    \A t \in Threads :
        pc[t] = "done" =>
            /\ \A k \in DOMAIN log[t] :
                  /\ log[t][k].after.columns = log[t][k].before.columns
                  /\ log[t][k].operation # "Remove duplicates" =>
                         Len(log[t][k].after.rows) = Len(log[t][k].before.rows)
            /\ ret[t].report.final_shape[2] = ret[t].report.original_shape[2]
            /\ ret[t].report.total_rows_removed >= 0
            /\ "Remove duplicates" \notin Range(arg[t].operations) =>
                   ret[t].report.total_rows_removed = 0

\* clean_data has returned after Handle missing values changed a cell without
\* changing the number of rows and Remove duplicates then removed a row
C28_Witness ==
    /\ pc[1] = "done"
    /\ arg[1].operations = <<"Handle missing values", "Remove duplicates">>
    /\ log[1][1].after # log[1][1].before
    /\ Len(log[1][1].after.rows) = Len(log[1][1].before.rows)
    /\ RemovedRows(1, 2)
    /\ ret[1].report.total_rows_removed = 1

\* caller t's call has returned from a list of twice the same operation
Repeated(t) ==
    /\ pc[t] = "done"
    /\ Len(arg[t].operations) = 2
    /\ arg[t].operations[1] = arg[t].operations[2]

\* the report the k-th stage of caller t's call writes when it runs on its
\* dataset with a report that no stage has written to
Alone(t, k) ==
    RunStage(log[t][k].operation, log[t][k].before,
             [operations |-> EmptyDict, columns_modified |-> [set |-> {}]],
             self).report

\* C29: a call with twice the same operation runs it twice, the second time
\* on the dataset the first left; the report holds for the operation what the
\* second execution alone reports, columns_modified holds the columns of both
\* executions and total_rows_removed the rows removed by both.
C29_RepeatedOperationReportsLast ==
    \A t \in Threads :
        Repeated(t) =>
            /\ Len(log[t]) = 2
            /\ \A k \in 1..2 :
                  /\ log[t][k].operation = arg[t].operations[k]
                  /\ log[t][k].before = Working(t, k)
            /\ ret[t].report.operations = Alone(t, 2).operations
            /\ Range(ret[t].report.columns_modified.list) =
                   Alone(t, 1).columns_modified.set \cup Alone(t, 2).columns_modified.set
            /\ ret[t].report.total_rows_removed =
                   (Len(log[t][1].before.rows) - Len(log[t][1].after.rows))
                       + (Len(log[t][2].before.rows) - Len(log[t][2].after.rows))

\* clean_data has returned from Remove duplicates twice: the first execution
\* removed a row, and the report of the operation counts the none of the second
C29_Witness ==
    /\ Repeated(1)
    /\ arg[1].operations[1] = "Remove duplicates"
    /\ RemovedRows(1, 1)
    /\ ret[1].report.operations["duplicates"].rows_removed = 0
    /\ ret[1].report.total_rows_removed = 1
    /\ Range(ret[1].report.columns_modified.list) = {"A", "B"}

====
